---- MODULE Spec2Model ----
(***************************************************************************)
(* The scheduler of src/scheduler/scheduler.go: the control loop           *)
(* (Scheduler.Loop), the rebuild of the queue from storage                 *)
(* (Scheduler.Reload = loadActionPlans + restart), Scheduler.Shutdown, the *)
(* bounded drain of pending tasks, the copy of the queue handed out by     *)
(* Scheduler.GetQueue and the statistics windows                           *)
(* (Scheduler.updateActStats).                                             *)
(*                                                                         *)
(* Time is counted in whole seconds from 1; 0 is Go's zero time.Time.      *)
(***************************************************************************)
EXTENDS Integers, Sequences, FiniteSets, TLC

\* ------------------------------------------------------------------ bounds

\* the clock runs from 1 to MaxTime
MaxTime == 2

\* how many Reload / Shutdown calls the application makes in one run
MaxCalls == 2

\* the largest backlog of pending tasks in storage (SpecDrain)
MaxBacklog == 11

\* capacity of the channel made by make(chan bool, 10)
Limit == 10

\* the longest retention interval of the statistics, in seconds
MaxInterval == 1

\* the threads of the application that call Reload and Shutdown
Callers == {"c1", "c2"}

\* the threads that call updateActStats
StatThreads == {"u1", "u2"}

\* the two windows: s.actSuccessStats and s.actFailedStats
Windows == {"success", "failed"}

\* the values of act.ActionType
ActionTypes == {"topup", "debit"}

\* ------------------------------------------------ scheduled items (engine)

NilTiming == [kind |-> "nil", n |-> 0]

Once(t) == [kind |-> "once", n |-> t]

Every(p) == [kind |-> "every", n |-> p]

\* an *engine.ActionTiming as storage hands it out: no cached start time, not
\* yet stamped with the accounts and the identifier of its plan
Item(id, timing, asap, weight) ==
  [id |-> id, Timing |-> timing, asap |-> asap, Weight |-> weight,
   stCache |-> 0, accountIDs |-> {}, actionPlanID |-> ""]

\* the recurrence descriptor resolved against a reference instant: a one-shot
\* timing yields its instant (which may lie before ref), a periodic one the
\* first multiple of its period at or after ref
NextOccurrence(timing, ref) ==
  IF timing.kind = "once" THEN timing.n
  ELSE IF timing.kind = "every" THEN ((ref + timing.n - 1) \div timing.n) * timing.n
  ELSE 0

\* at.GetNextStartTime(ref): the memoized instant when there is one, else the
\* descriptor resolved against ref
GetNextStartTime(at, ref) ==
  IF at.stCache # 0 THEN at.stCache ELSE NextOccurrence(at.Timing, ref)

\* the item after at.GetNextStartTime(ref): the result is memoized
Resolve(at, ref) == [at EXCEPT !.stCache = GetNextStartTime(at, ref)]

\* at.ResetStartTimeCache()
ResetStartTimeCache(at) == [at EXCEPT !.stCache = 0]

IsASAP(at) == at.asap

\* ActionTimingPriorityList.Less: by next start time, the higher weight first
\* among equal start times
Less(a, b) ==
  IF a.stCache = b.stCache THEN a.Weight > b.Weight ELSE a.stCache < b.stCache

RECURSIVE Insert(_, _)
Insert(x, s) ==
  IF s = <<>> THEN <<x>>
  ELSE IF Less(x, Head(s)) THEN <<x>> \o s
  ELSE <<Head(s)>> \o Insert(x, Tail(s))

RECURSIVE SortQueue(_)
\* sort.Sort(s.queue)
SortQueue(s) == IF s = <<>> THEN <<>> ELSE Insert(Head(s), SortQueue(Tail(s)))

\* ------------------------------------------------------------ storage

PlanA ==
  [Id |-> "pA", AccountIDs |-> {"acc1"},
   ActionTimings |-> << Item("once3", Once(3), FALSE, 1),
                        Item("nilT", NilTiming, FALSE, 2),
                        Item("every1", Every(1), FALSE, 3) >>]

PlanB ==
  [Id |-> "pB", AccountIDs |-> {"acc2"},
   ActionTimings |-> << Item("asap", Once(2), TRUE, 4),
                        Item("once1", Once(1), FALSE, 5) >>]

\* a nil *engine.ActionPlan in the result of GetAllActionPlans
NilPlan == [Id |-> "nil", AccountIDs |-> {}, ActionTimings |-> <<>>]

\* what GetAllActionPlans may return: the plans and whether err != nil
StorageResults ==
  { [plans |-> <<>>, err |-> FALSE],
    [plans |-> <<>>, err |-> TRUE],
    [plans |-> <<PlanA>>, err |-> FALSE],
    [plans |-> <<PlanA, NilPlan, PlanB>>, err |-> FALSE] }

\* the (plan, item) pairs the two nested loops of loadActionPlans visit, in
\* order; a nil plan is skipped
RECURSIVE PlanItems(_)
PlanItems(plans) ==
  IF plans = <<>> THEN <<>>
  ELSE LET p == Head(plans)
           own == IF p.Id = "nil" THEN <<>>
                  ELSE [k \in 1..Len(p.ActionTimings) |->
                          [at |-> p.ActionTimings[k], plan |-> p]]
       IN own \o PlanItems(Tail(plans))

\* ------------------------------------------------------------ state

VARIABLES
  now,               \* time.Now()
  queue,             \* s.queue
  lock,              \* holder of the scheduler's RWMutex: "none", "loop" or a caller
  schedulerStarted,  \* s.schedulerStarted
  timer,             \* s.timer: [set, deadline, state]
  lpc,               \* where Loop is
  a0,                \* Loop's local a0
  lnow,              \* Loop's local now (line 94)
  cpc,               \* where each caller is
  scan,              \* the (plan, item) pairs loadActionPlans still has to visit
  calls,             \* calls made so far
  backlog,           \* pending tasks in storage
  limit,             \* permits taken in the limit channel of the latest drain
  running,           \* task executions of earlier drains still in flight
  nExec,             \* history: actions dispatched by Loop so far
  lastExec,          \* history: the latest dispatch
  waitSeen,          \* history: callers whose Reload began during the loop's current deadline wait
  shutdownCalled,    \* history: Shutdown has been called
  sdRunning,         \* history: callers whose Shutdown began while the loop was running
  lastScan,          \* history: the item loadActionPlans visited last, and when
  loaded,            \* history: what the rebuild under way got from storage, when, and the queue it replaced
  snap,              \* the value GetQueue returned to its caller
  actStatsInterval,  \* s.actStatsInterval
  statsMp,           \* s.actSuccessStats and s.actFailedStats
  statMux,           \* s.aSMux and s.aFMux
  upc,               \* where each updateActStats call is
  ucall,             \* its locals: act, the window chosen, now, its copy of the mutex
  lastStat           \* history: the call that returned last and what it pruned

vars ==
  << now, queue, lock, schedulerStarted, timer, lpc, a0, lnow, cpc, scan, calls,
     backlog, limit, running, nExec, lastExec, waitSeen, shutdownCalled,
     sdRunning, lastScan, loaded, snap, actStatsInterval, statsMp, statMux, upc,
     ucall, lastStat >>

\* the state of the statistics
statsVars == << actStatsInterval, statsMp, statMux, upc, ucall, lastStat >>

\* the state of the queue, the loop and the callers of Reload and Shutdown
schedVars ==
  << now, queue, lock, schedulerStarted, timer, lpc, a0, lnow, cpc, scan, calls,
     backlog, limit, running, nExec, lastExec, waitSeen, shutdownCalled,
     sdRunning, lastScan, loaded, snap >>

NoTimer == [set |-> FALSE, deadline |-> 0, state |-> "none"]

NoItem == Item("none", NilTiming, FALSE, 0)

NoScan == [id |-> "none", at |-> 0]

NoExec == [id |-> "none", start |-> 0, seen |-> 0]

NoLoad == [err |-> FALSE, plans |-> <<>>, at |-> 0, before |-> {}]

\* no call of GetQueue has returned yet
NoSnap == [state |-> "none", shared |-> FALSE, items |-> <<>>]

\* the state NewScheduler leaves when storage holds no plan and no task: its
\* Reload finds nothing to queue and, the loop not started, signals nobody
InitCommon ==
  /\ now = 1
  /\ queue = <<>>
  /\ lock = "none"
  /\ schedulerStarted = FALSE
  /\ timer = NoTimer
  /\ lpc = "idle"
  /\ a0 = NoItem
  /\ lnow = 0
  /\ cpc = [c \in Callers |-> "idle"]
  /\ scan = <<>>
  /\ calls = 0
  /\ limit = 0
  /\ running = 0
  /\ nExec = 0
  /\ lastExec = NoExec
  /\ waitSeen = {}
  /\ shutdownCalled = FALSE
  /\ sdRunning = {}
  /\ lastScan = NoScan
  /\ loaded = NoLoad
  /\ snap = NoSnap

\* a nil map[string]map[time.Time]bool: what NewScheduler leaves in both windows
NilMap == [nil |-> TRUE, keys |-> {}, ts |-> [a \in ActionTypes |-> {}]]

\* an allocated map with no entry
EmptyMap == [nil |-> FALSE, keys |-> {}, ts |-> [a \in ActionTypes |-> {}]]

NoCall == [act |-> "nil", win |-> "none", now |-> 0, mux |-> "unlocked"]

NoStat == [win |-> "none", now |-> 0, removed |-> {}]

\* the statistics of a scheduler that NewScheduler has just made
InitStatsFresh ==
  /\ actStatsInterval = 0
  /\ statsMp = [w \in Windows |-> NilMap]
  /\ statMux = [w \in Windows |-> "unlocked"]
  /\ upc = [t \in StatThreads |-> "idle"]
  /\ ucall = [t \in StatThreads |-> NoCall]
  /\ lastStat = NoStat

Init == InitCommon /\ backlog = 0 /\ InitStatsFresh

\* ------------------------------------------------------------ the clock

Tick ==
  /\ now < MaxTime
  /\ now' = now + 1
  /\ UNCHANGED << queue, lock, schedulerStarted, timer, lpc, a0, lnow, cpc, scan,
                  calls, backlog, limit, running, nExec, lastExec, waitSeen,
                  shutdownCalled, sdRunning, lastScan, statsVars, loaded, snap >>

\* the runtime delivers on timer.C once the deadline has passed
TimerFire ==
  /\ timer.state = "armed"
  /\ now >= timer.deadline
  /\ timer' = [timer EXCEPT !.state = "fired"]
  /\ UNCHANGED << now, queue, lock, schedulerStarted, lpc, a0, lnow, cpc, scan, calls,
                  backlog, limit, running, nExec, lastExec, waitSeen, shutdownCalled,
                  sdRunning, lastScan, statsVars, loaded, snap >>

\* ------------------------------------------------------------ Loop

\* line 82
LoopStart ==
  /\ lpc = "idle"
  /\ schedulerStarted' = TRUE
  /\ lpc' = "top"
  /\ UNCHANGED << now, queue, lock, timer, a0, lnow, cpc, scan, calls, backlog, limit,
                  running, nExec, lastExec, waitSeen, shutdownCalled, sdRunning,
                  lastScan, statsVars, loaded, snap >>

\* lines 84-86
LoopTop ==
  /\ lpc = "top"
  /\ lpc' = IF schedulerStarted THEN "chk" ELSE "exited"
  /\ UNCHANGED << now, queue, lock, schedulerStarted, timer, a0, lnow, cpc, scan,
                  calls, backlog, limit, running, nExec, lastExec, waitSeen,
                  shutdownCalled, sdRunning, lastScan, statsVars, loaded, snap >>

\* line 87: the length of the queue, read without the lock
LoopCheckEmpty ==
  /\ lpc = "chk"
  /\ lpc' = IF Len(queue) = 0 THEN "park" ELSE "lock"
  /\ UNCHANGED << now, queue, lock, schedulerStarted, timer, a0, lnow, cpc, scan,
                  calls, backlog, limit, running, nExec, lastExec, waitSeen,
                  shutdownCalled, sdRunning, lastScan, statsVars, loaded, snap >>

\* a loop that fires the head whether it is due or not
IsDueAlways(start, t) == TRUE

\* start.Equal(now) || start.Before(now), line 96
IsDue(start, t) == start = t \/ start < t

\* lines 91-96 and 112: take the lock, read the head and decide; the branch
\* that waits gives the lock back at once
LoopLock ==
  /\ lpc = "lock"
  /\ lock = "none"
  /\ IF queue = <<>>
       THEN \* s.queue[0] of an empty queue: index out of range
            /\ lpc' = "panicked"
            /\ lock' = "loop"
            /\ UNCHANGED << a0, lnow, queue >>
       ELSE /\ a0' = Resolve(Head(queue), now)
            /\ queue' = [queue EXCEPT ![1] = Resolve(Head(queue), now)]
            /\ lnow' = now
            /\ IF IsDue(GetNextStartTime(Head(queue), now), now)
                 THEN lpc' = "fire" /\ lock' = "loop"
                 ELSE lpc' = "arm" /\ lock' = "none"
  /\ UNCHANGED << now, schedulerStarted, timer, cpc, scan, calls, backlog, limit,
                  running, nExec, lastExec, waitSeen, shutdownCalled, sdRunning,
                  lastScan, statsVars, loaded, snap >>

\* a loop that also drops an item whose next start is exactly one second away
IsPastOrNow(start, t) == start <= t

\* start.Before(now) of line 103: the item has no occurrence left
IsPast(start, t) == start < t

\* lines 103-109: the queue after the head a has fired, next being a with its
\* start time recomputed against t
Requeue(q, next, t) ==
  IF IsPast(next.stCache, t) THEN Tail(q) ELSE SortQueue(Tail(Append(q, next)))

\* lines 97-110: dispatch the head, recompute its start time against one second
\* from now, drop or reinsert it, release the lock
LoopFire ==
  /\ lpc = "fire"
  /\ LET next == Resolve(ResetStartTimeCache(a0), now + 1)
     IN queue' = Requeue(queue, next, now + 1)
  /\ nExec' = nExec + 1
  /\ lastExec' = [id |-> a0.id, start |-> a0.stCache, seen |-> lnow]
  /\ lock' = "none"
  /\ lpc' = "top"
  /\ UNCHANGED << now, schedulerStarted, timer, a0, lnow, cpc, scan, calls, backlog,
                  limit, running, waitSeen, shutdownCalled, sdRunning, lastScan,
                  statsVars, loaded, snap >>

\* lines 113-115: d := start - now; s.timer = time.NewTimer(d)
LoopArm ==
  /\ lpc = "arm"
  /\ timer' = [set |-> TRUE, deadline |-> now + (a0.stCache - lnow), state |-> "armed"]
  /\ lpc' = "select"
  /\ UNCHANGED << now, queue, lock, schedulerStarted, a0, lnow, cpc, scan, calls,
                  backlog, limit, running, nExec, lastExec, waitSeen, shutdownCalled,
                  sdRunning, lastScan, statsVars, loaded, snap >>

\* lines 117-119: the select takes the timer's channel
LoopTimer ==
  /\ lpc = "select"
  /\ timer.state = "fired"
  /\ lpc' = "top"
  /\ waitSeen' = {}
  /\ UNCHANGED << now, queue, lock, schedulerStarted, timer, a0, lnow, cpc, scan,
                  calls, backlog, limit, running, nExec, lastExec, shutdownCalled,
                  sdRunning, lastScan, statsVars, loaded, snap >>

\* ------------------------------------------------------------ Reload

\* a panic of the loop's goroutine ends the process
Alive == lpc # "panicked"

\* the threads are interchangeable: a new call is made by "c1" when it is
\* free, by "c2" while "c1" is inside a call
MayCall(c) ==
  /\ Alive
  /\ cpc[c] = "idle"
  /\ calls < MaxCalls
  /\ c = "c2" => cpc["c1"] # "idle"

\* a thread of the application calls Reload (line 127)
BeginReload(c) ==
  /\ MayCall(c)
  /\ calls' = calls + 1
  /\ cpc' = [cpc EXCEPT ![c] = "lap_lock"]
  /\ waitSeen' = IF lpc = "select" THEN waitSeen \cup {c} ELSE waitSeen \ {c}
  /\ UNCHANGED << now, queue, lock, schedulerStarted, timer, lpc, a0, lnow, scan,
                  backlog, limit, running, nExec, lastExec, shutdownCalled, sdRunning,
                  lastScan, statsVars, loaded, snap >>

\* a loadActionPlans that does not wait for the lock
LapLockNoWait(c) ==
  /\ cpc[c] = "lap_lock"
  /\ lock' = c
  /\ running' = running + limit
  /\ limit' = 0
  /\ cpc' = [cpc EXCEPT ![c] = "lap_pop"]
  /\ UNCHANGED << now, queue, schedulerStarted, timer, lpc, a0, lnow, scan, calls,
                  backlog, nExec, lastExec, waitSeen, shutdownCalled, sdRunning,
                  lastScan, statsVars, loaded, snap >>

\* lines 133-136: take the lock and make this call's own limit channel; the
\* executions an earlier call dispatched keep the permits of its channel
LapLock(c) ==
  /\ cpc[c] = "lap_lock"
  /\ lock = "none"
  /\ lock' = c
  /\ running' = running + limit
  /\ limit' = 0
  /\ cpc' = [cpc EXCEPT ![c] = "lap_pop"]
  /\ UNCHANGED << now, queue, schedulerStarted, timer, lpc, a0, lnow, scan, calls,
                  backlog, nExec, lastExec, waitSeen, shutdownCalled, sdRunning,
                  lastScan, statsVars, loaded, snap >>

\* lines 139-142, PopTask yields a task
DrainPop(c) ==
  /\ cpc[c] = "lap_pop"
  /\ backlog > 0
  /\ backlog' = backlog - 1
  /\ cpc' = [cpc EXCEPT ![c] = "lap_permit"]
  /\ UNCHANGED << now, queue, lock, schedulerStarted, timer, lpc, a0, lnow, scan,
                  calls, limit, running, nExec, lastExec, waitSeen, shutdownCalled,
                  sdRunning, lastScan, statsVars, loaded, snap >>

\* limit <- true of line 143 goes through while the channel has room
CanAcquire(n) == n < Limit

\* lines 143-148: take a permit, then start the execution
DrainDispatch(c) ==
  /\ cpc[c] = "lap_permit"
  /\ CanAcquire(limit)
  /\ limit' = limit + 1
  /\ cpc' = [cpc EXCEPT ![c] = "lap_pop"]
  /\ UNCHANGED << now, queue, lock, schedulerStarted, timer, lpc, a0, lnow, scan,
                  calls, backlog, running, nExec, lastExec, waitSeen, shutdownCalled,
                  sdRunning, lastScan, statsVars, loaded, snap >>

\* lines 139-142, PopTask yields no task (nothing is pending) or an error
DrainEnd(c) ==
  /\ cpc[c] = "lap_pop"
  /\ \E err \in BOOLEAN : err \/ backlog = 0
  /\ cpc' = [cpc EXCEPT ![c] = "lap_get"]
  /\ UNCHANGED << now, queue, lock, schedulerStarted, timer, lpc, a0, lnow, scan,
                  calls, backlog, limit, running, nExec, lastExec, waitSeen,
                  shutdownCalled, sdRunning, lastScan, statsVars, loaded, snap >>

\* lines 146-147: an execution ends and gives its permit back
TaskDone ==
  /\ \/ limit > 0 /\ limit' = limit - 1 /\ UNCHANGED running
     \/ running > 0 /\ running' = running - 1 /\ UNCHANGED limit
  /\ UNCHANGED << now, queue, lock, schedulerStarted, timer, lpc, a0, lnow, cpc, scan,
                  calls, backlog, nExec, lastExec, waitSeen, shutdownCalled, sdRunning,
                  lastScan, statsVars, loaded, snap >>

\* a rebuild that reads the plans only when every execution it dispatched
\* has ended
GetPlansAfterTasks(c) ==
  /\ cpc[c] = "lap_get"
  /\ limit = 0
  /\ \E r \in StorageResults :
        /\ scan' = PlanItems(IF r.err THEN <<>> ELSE r.plans)
        /\ loaded' = [err |-> r.err, plans |-> r.plans, at |-> now,
                      before |-> {queue[k].id : k \in 1..Len(queue)}]
  /\ queue' = <<>>
  /\ cpc' = [cpc EXCEPT ![c] = "lap_scan"]
  /\ UNCHANGED << now, lock, schedulerStarted, timer, lpc, a0, lnow, calls, backlog,
                  limit, running, nExec, lastExec, waitSeen, shutdownCalled, sdRunning,
                  lastScan, statsVars, snap >>

\* a rebuild that keeps the queue it finds and appends to it
GetPlansMerging(c) ==
  /\ cpc[c] = "lap_get"
  /\ \E r \in StorageResults :
        /\ scan' = PlanItems(IF r.err THEN <<>> ELSE r.plans)
        /\ loaded' = [err |-> r.err, plans |-> r.plans, at |-> now,
                      before |-> {queue[k].id : k \in 1..Len(queue)}]
  /\ cpc' = [cpc EXCEPT ![c] = "lap_scan"]
  /\ UNCHANGED << now, queue, lock, schedulerStarted, timer, lpc, a0, lnow, calls,
                  backlog, limit, running, nExec, lastExec, waitSeen, shutdownCalled,
                  sdRunning, lastScan, statsVars, snap >>

\* lines 151-157: read the plans (an error leaves none) and empty the queue
GetPlans(c) ==
  /\ cpc[c] = "lap_get"
  /\ \E r \in StorageResults :
        /\ scan' = PlanItems(IF r.err THEN <<>> ELSE r.plans)
        /\ loaded' = [err |-> r.err, plans |-> r.plans, at |-> now,
                      before |-> {queue[k].id : k \in 1..Len(queue)}]
  /\ queue' = <<>>
  /\ cpc' = [cpc EXCEPT ![c] = "lap_scan"]
  /\ UNCHANGED << now, lock, schedulerStarted, timer, lpc, a0, lnow, calls, backlog,
                  limit, running, nExec, lastExec, waitSeen, shutdownCalled, sdRunning,
                  lastScan, statsVars, snap >>

\* a rebuild without the ASAP test of line 167
DiscardedButASAP(at, t) ==
  \/ at.Timing = NilTiming
  \/ GetNextStartTime(at, t) < t

\* a rebuild that also discards an item that starts right now
DiscardedAtNow(at, t) ==
  \/ at.Timing = NilTiming
  \/ IsASAP(at)
  \/ GetNextStartTime(at, t) <= t

\* lines 163-174: the item is discarded
Discarded(at, t) ==
  \/ at.Timing = NilTiming
  \/ IsASAP(at)
  \/ GetNextStartTime(at, t) < t

\* lines 175-177: the item as it is queued
Stamped(at, plan, t) ==
  [Resolve(at, t) EXCEPT !.accountIDs = plan.AccountIDs, !.actionPlanID = plan.Id]

\* lines 162-178, one item of one plan
ScanItem(c) ==
  /\ cpc[c] = "lap_scan"
  /\ scan # <<>>
  /\ LET e == Head(scan)
     IN queue' = IF Discarded(e.at, now) THEN queue
                 ELSE Append(queue, Stamped(e.at, e.plan, now))
  /\ scan' = Tail(scan)
  /\ lastScan' = [id |-> Head(scan).at.id, at |-> now]
  /\ UNCHANGED << now, lock, schedulerStarted, timer, lpc, a0, lnow, cpc, calls,
                  backlog, limit, running, nExec, lastExec, waitSeen, shutdownCalled,
                  sdRunning, statsVars, loaded, snap >>

\* a rebuild that forgets to sort
Unsorted(q) == q

\* line 181
Sorted(q) == SortQueue(q)

\* lines 181-183 and the deferred Unlock of line 134
ScanDone(c) ==
  /\ cpc[c] = "lap_scan"
  /\ scan = <<>>
  /\ queue' = Sorted(queue)
  /\ lock' = "none"
  /\ cpc' = [cpc EXCEPT ![c] = "r_chk"]
  /\ lastScan' = NoScan
  /\ loaded' = [NoLoad EXCEPT !.err = loaded.err]
  /\ UNCHANGED << now, schedulerStarted, timer, lpc, a0, lnow, scan, calls, backlog,
                  limit, running, nExec, lastExec, waitSeen, shutdownCalled, sdRunning,
                  statsVars, snap >>

\* a restart that never signals the loop
NeverSignals(started) == FALSE

\* line 186: restart signals the loop only when the scheduler is started
WantsSignal(started) == started

\* line 186
RestartCheck(c) ==
  /\ cpc[c] = "r_chk"
  /\ cpc' = [cpc EXCEPT ![c] = IF WantsSignal(schedulerStarted) THEN "r_send" ELSE "r_stop"]
  /\ UNCHANGED << now, queue, lock, schedulerStarted, timer, lpc, a0, lnow, scan,
                  calls, backlog, limit, running, nExec, lastExec, waitSeen,
                  shutdownCalled, sdRunning, lastScan, statsVars, loaded, snap >>

\* the loop is blocked in a receive from s.restartLoop (line 88 or line 120)
LoopReceiving == lpc \in {"park", "select"}

\* a send that goes through without the loop taking it
SignalUnheard(c) ==
  /\ cpc[c] \in {"r_send", "s_send"}
  /\ LoopReceiving
  /\ cpc' = [cpc EXCEPT ![c] = IF cpc[c] = "r_send" THEN "r_stop" ELSE "s_stop"]
  /\ waitSeen' = {}
  /\ UNCHANGED << now, queue, lock, schedulerStarted, timer, lpc, a0, lnow, scan,
                  calls, backlog, limit, running, nExec, lastExec, shutdownCalled,
                  sdRunning, lastScan, statsVars, loaded, snap >>

\* s.restartLoop <- true (line 187 or line 203) meeting <-s.restartLoop
\* (line 88 or line 120): the channel has no buffer, so the send goes through
\* only together with a receive
Signal(c) ==
  /\ cpc[c] \in {"r_send", "s_send"}
  /\ LoopReceiving
  /\ cpc' = [cpc EXCEPT ![c] = IF cpc[c] = "r_send" THEN "r_stop" ELSE "s_stop"]
  /\ lpc' = IF lpc = "park" THEN "chk" ELSE "top"
  /\ waitSeen' = {}
  /\ UNCHANGED << now, queue, lock, schedulerStarted, timer, a0, lnow, scan, calls,
                  backlog, limit, running, nExec, lastExec, shutdownCalled, sdRunning,
                  lastScan, statsVars, loaded, snap >>

\* timer.Stop(): a timer that has not fired yet never will
Stop(t) == IF t.state = "armed" THEN [t EXCEPT !.state = "stopped"] ELSE t

\* lines 189-191 and 204-206, then the call returns
StopTimer(c) ==
  /\ cpc[c] \in {"r_stop", "s_stop"}
  /\ timer' = IF timer.set THEN Stop(timer) ELSE timer
  /\ cpc' = [cpc EXCEPT ![c] = "idle"]
  /\ UNCHANGED << now, queue, lock, schedulerStarted, lpc, a0, lnow, scan, calls,
                  backlog, limit, running, nExec, lastExec, waitSeen, shutdownCalled,
                  sdRunning, lastScan, statsVars, loaded, snap >>

\* ------------------------------------------------------------ Shutdown

\* Loop has passed line 82 and has not left its for loop
LoopRunning == lpc \notin {"idle", "exited", "panicked"}

\* line 202
BeginShutdown(c) ==
  /\ MayCall(c)
  /\ calls' = calls + 1
  /\ schedulerStarted' = FALSE
  /\ shutdownCalled' = TRUE
  /\ sdRunning' = IF LoopRunning THEN sdRunning \cup {c} ELSE sdRunning \ {c}
  /\ cpc' = [cpc EXCEPT ![c] = "s_send"]
  /\ UNCHANGED << now, queue, lock, timer, lpc, a0, lnow, scan, backlog, limit,
                  running, nExec, lastExec, waitSeen, lastScan,
                  statsVars, loaded, snap >>

\* ------------------------------------------------------------ GetQueue

\* utils.Clone: a deep copy, which shares no storage with the value copied
Clone(q) == [state |-> "fresh", shared |-> FALSE, items |-> q]

\* a GetQueue that hands out the live slice (queue = s.queue)
LiveReference(q) == [state |-> "fresh", shared |-> TRUE, items |-> q]

\* line 196: what GetQueue puts in its result
Snapshot(q) == Clone(q)

\* lines 194-199: under the read lock, which no writer may hold, copy the
\* queue and return the copy
GetQueue ==
  /\ Alive
  /\ lock = "none"
  /\ snap' = Snapshot(queue)
  /\ UNCHANGED << now, queue, lock, schedulerStarted, timer, lpc, a0, lnow, cpc, scan,
                  calls, backlog, limit, running, nExec, lastExec, waitSeen,
                  shutdownCalled, sdRunning, lastScan, statsVars, loaded >>

\* an item the caller of GetQueue makes up
OwnItem == Item("own", Once(1), FALSE, 0)

\* the items of q after the caller has written to the first item of its
\* result, whose identifier is id
Edited(q, id) ==
  [k \in 1..Len(q) |-> IF q[k].id = id THEN [q[k] EXCEPT !.actionPlanID = "edited"]
                       ELSE q[k]]

\* the caller of GetQueue changes the value it got (line 198 returns it): it
\* appends an item, drops the first one or writes to the first one. Appending
\* and re-slicing change the caller's own slice header; a write to an item
\* reaches whatever shares the item's storage
MutateSnapshot ==
  /\ snap.state = "fresh"
  /\ \E op \in {"add", "remove", "modify"} :
       \/ /\ op = "add"
          /\ snap' = [snap EXCEPT !.state = "changed", !.items = Append(snap.items, OwnItem)]
          /\ UNCHANGED queue
       \/ /\ op = "remove"
          /\ snap.items # <<>>
          /\ snap' = [snap EXCEPT !.state = "changed", !.items = Tail(snap.items)]
          /\ UNCHANGED queue
       \/ /\ op = "modify"
          /\ snap.items # <<>>
          /\ snap' = [snap EXCEPT !.state = "changed",
                                  !.items = Edited(snap.items, Head(snap.items).id)]
          /\ queue' = IF snap.shared THEN Edited(queue, Head(snap.items).id) ELSE queue
  /\ UNCHANGED << now, lock, schedulerStarted, timer, lpc, a0, lnow, cpc, scan, calls,
                  backlog, limit, running, nExec, lastExec, waitSeen, shutdownCalled,
                  sdRunning, lastScan, statsVars, loaded >>

\* ------------------------------------------------------------ updateActStats

\* lines 52-59: the locals of a call. mux := s.aSMux copies the mutex: the
\* call locks and unlocks its own copy
UBegin(t) ==
  /\ upc[t] = "idle"
  /\ \E act \in ActionTypes \cup {"nil"}, isFailed \in BOOLEAN :
       LET w == IF isFailed THEN "failed" ELSE "success"
       IN ucall' = [ucall EXCEPT ![t] =
                      [act |-> act, win |-> w, now |-> now, mux |-> statMux[w]]]
  /\ upc' = [upc EXCEPT ![t] = "lock"]
  /\ UNCHANGED << schedVars, actStatsInterval, statsMp, statMux, lastStat >>

\* line 60: mux.Lock()
ULock(t) ==
  /\ upc[t] = "lock"
  /\ ucall[t].mux = "unlocked"
  /\ ucall' = [ucall EXCEPT ![t].mux = "locked"]
  /\ upc' = [upc EXCEPT ![t] = "prune"]
  /\ UNCHANGED << schedVars, actStatsInterval, statsMp, statMux, lastStat >>

\* a prune that deletes nothing
PruneNothing(mp, t, interval) == mp

\* a prune that leaves the kinds it has emptied in the window
PruneKeepsKinds(mp, t, interval) ==
  [mp EXCEPT !.ts = [a \in ActionTypes |-> {x \in mp.ts[a] : ~(t - x > interval)}]]

\* lines 61-70: delete every timestamp with now.Sub(t) > interval, and the
\* kind with it when that leaves the kind without a timestamp
Prune(mp, t, interval) ==
  LET kept(a) == {x \in mp.ts[a] : ~(t - x > interval)}
      emptied(a) == mp.ts[a] # {} /\ kept(a) = {}
  IN [mp EXCEPT !.keys = {a \in mp.keys : ~emptied(a)},
                !.ts = [a \in ActionTypes |-> kept(a)]]

\* lines 61-73: prune the window; a call without an action returns here
UPrune(t) ==
  /\ upc[t] = "prune"
  /\ LET c == ucall[t]
         after == Prune(statsMp[c.win], c.now, actStatsInterval)
     IN /\ statsMp' = [statsMp EXCEPT ![c.win] = after]
        /\ lastStat' = [win |-> c.win, now |-> c.now,
                        removed |-> statsMp[c.win].keys \ after.keys]
        /\ upc' = [upc EXCEPT ![t] = IF c.act = "nil" THEN "idle" ELSE "insert"]
  /\ UNCHANGED << schedVars, actStatsInterval, statMux, ucall >>

\* lines 74-77
Record(mp, a, t) ==
  [mp EXCEPT !.keys = mp.keys \cup {a}, !.ts[a] = mp.ts[a] \cup {t}]

\* lines 74-78: record the action under its kind and unlock; the assignment
\* of line 75 panics when the window is a nil map
UInsert(t) ==
  /\ upc[t] = "insert"
  /\ LET c == ucall[t]
     IN IF statsMp[c.win].nil
          THEN /\ upc' = [upc EXCEPT ![t] = "panicked"]
               /\ UNCHANGED << statsMp, ucall >>
          ELSE /\ statsMp' = [statsMp EXCEPT ![c.win] = Record(statsMp[c.win], c.act, c.now)]
               /\ ucall' = [ucall EXCEPT ![t].mux = "unlocked"]
               /\ upc' = [upc EXCEPT ![t] = "idle"]
  /\ UNCHANGED << schedVars, actStatsInterval, statMux, lastStat >>

\* ------------------------------------------------------------ specifications

Next ==
  \/ Tick
  \/ TimerFire
  \/ LoopStart
  \/ LoopTop
  \/ LoopCheckEmpty
  \/ LoopLock
  \/ LoopFire
  \/ LoopArm
  \/ LoopTimer
  \/ \E c \in Callers : BeginReload(c)
  \/ \E c \in Callers : LapLock(c)
  \/ \E c \in Callers : DrainEnd(c)
  \/ \E c \in Callers : GetPlans(c)
  \/ \E c \in Callers : ScanItem(c)
  \/ \E c \in Callers : ScanDone(c)
  \/ \E c \in Callers : RestartCheck(c)
  \/ \E c \in Callers : Signal(c)
  \/ \E c \in Callers : StopTimer(c)
  \/ \E c \in Callers : BeginShutdown(c)

Spec == Init /\ [][Next]_vars

\* Reload called by the application, the loop not started, and a thread that
\* calls GetQueue and changes what it gets
NextQueue ==
  \/ Tick
  \/ GetQueue
  \/ MutateSnapshot
  \/ \E c \in Callers : BeginReload(c)
  \/ \E c \in Callers : LapLock(c)
  \/ \E c \in Callers : DrainEnd(c)
  \/ \E c \in Callers : GetPlans(c)
  \/ \E c \in Callers : ScanItem(c)
  \/ \E c \in Callers : ScanDone(c)
  \/ \E c \in Callers : RestartCheck(c)
  \/ \E c \in Callers : StopTimer(c)

SpecQueue == Init /\ [][NextQueue]_vars

\* the drain of a backlog of pending tasks, the loop not started
InitDrain == InitCommon /\ backlog \in 0..MaxBacklog /\ InitStatsFresh

NextDrain ==
  \/ TaskDone
  \/ \E c \in Callers : BeginReload(c)
  \/ \E c \in Callers : LapLock(c)
  \/ \E c \in Callers : DrainPop(c)
  \/ \E c \in Callers : DrainDispatch(c)
  \/ \E c \in Callers : DrainEnd(c)
  \/ \E c \in Callers : GetPlans(c)
  \/ \E c \in Callers : ScanItem(c)
  \/ \E c \in Callers : ScanDone(c)
  \/ \E c \in Callers : RestartCheck(c)
  \/ \E c \in Callers : StopTimer(c)

SpecDrain == InitDrain /\ [][NextDrain]_vars

\* updateActStats called again and again by one thread, on a scheduler whose
\* windows are nil maps (as NewScheduler leaves them) or allocated ones
InitStats ==
  /\ InitCommon
  /\ backlog = 0
  /\ actStatsInterval \in 0..MaxInterval
  /\ statsMp \in [Windows -> {NilMap, EmptyMap}]
  /\ statMux = [w \in Windows |-> "unlocked"]
  /\ upc = [t \in StatThreads |-> "idle"]
  /\ ucall = [t \in StatThreads |-> NoCall]
  /\ lastStat = NoStat

NextStats ==
  \/ Tick
  \/ UBegin("u1")
  \/ ULock("u1")
  \/ UPrune("u1")
  \/ UInsert("u1")

SpecStats == InitStats /\ [][NextStats]_vars

\* updateActStats called by two threads at once
NextStatsConc ==
  \/ Tick
  \/ \E t \in StatThreads : UBegin(t)
  \/ \E t \in StatThreads : ULock(t)
  \/ \E t \in StatThreads : UPrune(t)
  \/ \E t \in StatThreads : UInsert(t)

SpecStatsConc == InitStats /\ [][NextStatsConc]_vars

\* ------------------------------------------------------------ properties

\* the queue is in ascending order of resolved next start time
IsAscending(q) == \A k \in 1..(Len(q) - 1) : q[k].stCache <= q[k + 1].stCache

Range(q) == {q[k] : k \in 1..Len(q)}

\* this step dispatches an action
Dispatches == nExec' # nExec

\* this step takes the loop out of its deadline wait
LeavesWait == lpc = "select" /\ lpc' # "select"

\* in this step the loop receives the signal some caller sends
Signalled ==
  \E c \in Callers : cpc[c] \in {"r_send", "s_send"} /\ cpc'[c] \in {"r_stop", "s_stop"}

\* C1 (wait correctness): every dispatch is made by an iteration that saw the
\* item's resolved start time at or before its own now; the item dispatched
\* is the head of the queue and is due, so that while the head is due at
\* T > now nothing is dispatched; and the loop leaves its deadline wait only
\* when the timer it armed for T has fired at or after T or when a
\* Reload/Shutdown signal arrives.
C1_WaitCorrectness ==
  /\ [](lastExec.id # "none" => lastExec.start <= lastExec.seen /\ lastExec.seen <= now)
  /\ [][ /\ Dispatches =>
             /\ queue # <<>>
             /\ Head(queue).stCache <= now
             /\ lastExec'.id = Head(queue).id
             /\ \A k \in 1..Len(queue) : Head(queue).stCache <= queue[k].stCache
         /\ LeavesWait =>
             \/ Signalled
             \/ timer.state = "fired" /\ now >= timer.deadline /\ now >= a0.stCache
       ]_vars

\* the loop has waited for "every1", due at 2, and dispatched it once its
\* timer had fired
C1_Witness ==
  /\ lastExec.id = "every1"
  /\ lastExec.start = 2
  /\ timer.state = "fired"
  /\ timer.deadline = 2
  /\ lpc = "top"

\* C2 (due firing): an iteration that finds the head due goes on to fire; the
\* firing step dispatches the head exactly once and either removes it (its
\* start recomputed against now + 1 lies before now + 1) or reinserts it
\* with the queue again ascending; every other item stays as it was, and
\* nothing else changes the queue while the iteration holds it.
C2_DueFiring ==
  [][ /\ (lpc = "lock" /\ lpc' # "lock" /\ queue # <<>> /\ Head(queue).stCache <= now)
          => lpc' = "fire"
      /\ (lpc = "fire" /\ ~Dispatches) => (lpc' = "fire" /\ queue' = queue)
      /\ Dispatches =>
          LET h == Head(queue)
              next == NextOccurrence(h.Timing, now + 1)
          IN /\ lpc = "fire" /\ lpc' = "top"
             /\ h.stCache <= now
             /\ nExec' = nExec + 1
             /\ lastExec'.id = h.id
             /\ IF next < now + 1
                  THEN queue' = Tail(queue)
                  ELSE /\ Len(queue') = Len(queue)
                       /\ Range(queue') =
                            Range(Tail(queue)) \cup {[h EXCEPT !.stCache = next]}
                       /\ IsAscending(queue')
    ]_vars

\* "every1" has fired and has been put back behind "once3", and "once1" has
\* fired and has been removed
C2_Witness ==
  /\ lpc = "top"
  /\ lock = "none"
  /\ lastExec.id = "every1"
  /\ Len(queue) = 2
  /\ queue[1].id = "every1" /\ queue[1].stCache = 2
  /\ queue[2].id = "once3"

\* C3 (interruptibility): a Reload that began while the loop was blocked in
\* its deadline wait has, by the time restart is past its send, taken the
\* loop out of that wait (no Shutdown being under way); the signal is taken
\* as soon as it is offered, in a step in which no time passes and which
\* sends the loop back to the top of its iteration.
C3_Interruptibility ==
  /\ [](\A c \in Callers :
         (cpc[c] = "r_stop" /\ ~shutdownCalled) => c \notin waitSeen)
  /\ [](\A c \in Callers :
         (cpc[c] = "r_send" /\ lpc = "select") => ENABLED Signal(c))
  /\ [][ (Signalled /\ lpc = "select") =>
           (lpc' = "top" /\ now' = now /\ queue' = queue) ]_vars

\* a Reload has rebuilt the queue and woken the loop, which is back at the
\* top of its iteration although the deadline it was waiting for has not come
C3_Witness ==
  \E c \in Callers :
    /\ cpc[c] = "r_stop"
    /\ lpc = "top"
    /\ timer.state = "armed"
    /\ now < timer.deadline
    /\ queue # <<>>
    /\ ~shutdownCalled

\* C4 (shutdown terminates the loop), as claimed: once the loop has received
\* the signal of a Shutdown called while it was running, it is on its way out
\* and never blocks on an empty queue again.
C4_ShutdownTerminates ==
  \A c \in Callers :
    (cpc[c] = "s_stop" /\ c \in sdRunning) => lpc # "park"

\* C5 (the signal is a handoff that is dropped), as claimed: a Reload or a
\* Shutdown that has come to its send can always go past it, whether or not
\* the loop is blocked in a receive.
C5_SignalNeverBlocks ==
  \A c \in Callers :
    cpc[c] \in {"r_send", "s_send"} => ENABLED Signal(c)

\* C6 (ordering): whenever the lock is free the queue is in ascending order
\* of resolved next start time.
C6_Ordering == lock = "none" => IsAscending(queue)

\* the lock is free and the queue holds "every1", put back after it fired,
\* before "once3"
C6_Witness ==
  /\ lock = "none"
  /\ nExec > 0
  /\ Len(queue) = 2
  /\ queue[1].id = "every1"
  /\ queue[2].id = "once3"
  /\ queue[1].stCache < queue[2].stCache

\* C7 (queue membership): no item of the queue is ASAP or has a nil timing.
C7_Membership ==
  \A k \in 1..Len(queue) : ~queue[k].asap /\ queue[k].Timing # NilTiming

\* a rebuild has gone through both plans, one holding an item with a nil
\* timing and the other an ASAP item, and has queued the three other items
C7_Witness ==
  \E c \in Callers :
    /\ cpc[c] = "lap_scan"
    /\ scan = <<>>
    /\ lastScan.id = "once1"
    /\ Len(queue) = 3

\* C8 (staleness filtering): the rebuild leaves out an item whose start time,
\* resolved when the item is visited, lies before now, and queues an item
\* with a timing that is not ASAP and whose start time is now or later; the
\* final sort only reorders what was queued.
C8_Staleness ==
  [][ /\ (\E c \in Callers : cpc[c] = "lap_scan") /\ scan' # scan =>
          LET at == Head(scan).at
              start == NextOccurrence(at.Timing, now)
          IN /\ (at.Timing # NilTiming /\ start < now) => queue' = queue
             /\ (at.Timing # NilTiming /\ ~at.asap /\ start >= now) =>
                  /\ Len(queue') = Len(queue) + 1
                  /\ queue'[Len(queue')].id = at.id
                  /\ queue'[Len(queue')].stCache = start
                  /\ SubSeq(queue', 1, Len(queue)) = queue
      /\ (\E c \in Callers : cpc[c] = "lap_scan" /\ cpc'[c] = "r_chk") =>
          Range(queue') = Range(queue) /\ Len(queue') = Len(queue)
    ]_vars

\* at time 2 a rebuild has left out "once1", whose start time 1 is past, and
\* has queued "every1", whose start time is now, and "once3", which is later
C8_Witness ==
  \E c \in Callers :
    /\ cpc[c] = "lap_scan"
    /\ scan = <<>>
    /\ lastScan = [id |-> "once1", at |-> 2]
    /\ Len(queue) = 2
    /\ queue[1].id = "once3" /\ queue[1].stCache > now
    /\ queue[2].id = "every1" /\ queue[2].stCache = now

\* the executions of pending tasks in flight
InFlight == limit + running

\* some Reload is inside the drain of lines 138-149
Draining == \E c \in Callers : cpc[c] \in {"lap_pop", "lap_permit"}

\* the executions dispatched by the latest drain never hold more permits than
\* its channel has
PermitsBounded == limit <= Limit

\* C9 (bounded drain concurrency), as claimed: while loadActionPlans drains
\* the pending tasks, at most 10 executions of tasks are in flight.
C9_BoundedDrain == Draining => InFlight <= Limit

\* C10 (stats pruning): once a call has returned, the window it updated holds
\* no timestamp older than the retention interval relative to the call's now;
\* and no window ever holds a kind without a timestamp.
C10_StatsPruning ==
  /\ (upc["u1"] = "idle" /\ lastStat.win # "none") =>
       \A a \in statsMp[lastStat.win].keys :
         \A x \in statsMp[lastStat.win].ts[a] : lastStat.now - x <= actStatsInterval
  /\ \A w \in Windows :
       /\ \A a \in statsMp[w].keys : statsMp[w].ts[a] # {}
       /\ \A a \in ActionTypes \ statsMp[w].keys : statsMp[w].ts[a] = {}

\* a call at time 2 has removed "topup", recorded at time 1, from the success
\* window and has recorded "debit"
C10_Witness ==
  /\ upc["u1"] = "idle"
  /\ lastStat = [win |-> "success", now |-> 2, removed |-> {"topup"}]
  /\ statsMp["success"].keys = {"debit"}
  /\ statsMp["success"].ts["debit"] = {2}

\* C11 (snapshot isolation): a step in which GetQueue returns, or in which its
\* caller adds to, removes from or writes to the value returned, leaves the
\* live queue and its lock as they were.
C11_SnapshotIsolation == [][ snap' # snap => (queue' = queue /\ lock' = lock) ]_vars

\* the caller has written to the first item of its copy of a queue of two
\* items; the live queue still holds the item as the rebuild stamped it
C11_Witness ==
  /\ snap.state = "changed"
  /\ Len(snap.items) = 2
  /\ Len(queue) = 2
  /\ snap.items[1].id = queue[1].id
  /\ snap.items[1].actionPlanID = "edited"
  /\ queue[1].actionPlanID = "pA"

\* some caller's loadActionPlans reads the plans in this step (line 151)
ReadsPlans == \E c \in Callers : cpc[c] = "lap_get" /\ cpc'[c] = "lap_scan"

\* some caller's loadActionPlans returns in this step
RebuildReturns == \E c \in Callers : cpc[c] = "lap_scan" /\ cpc'[c] = "r_chk"

\* C12 (a storage error on rebuild is not fatal), as claimed: a rebuild whose
\* read of the plans returns an error has nothing to visit and returns with
\* the queue empty, and after such a rebuild the loop does not fail.
C12_ErrorNotFatal ==
  [][ /\ (ReadsPlans /\ loaded'.err) => (scan' = <<>> /\ queue' = <<>>)
      /\ (RebuildReturns /\ loaded.err) => queue' = <<>>
      /\ (loaded.err /\ lpc' # lpc) => lpc' # "panicked" ]_vars

\* C13 (the loop does not fail), as claimed: whenever the loop holds the lock,
\* under which it reads queue[0], the queue is not empty.
C13_HeadNeverEmpty == lock = "loop" => queue # <<>>

\* C14 (the deadline wait is never indefinite), as claimed: while the loop is
\* blocked in its deadline wait and no Reload or Shutdown is under way to
\* signal it, the timer it waits on is running or has fired.
C14_WaitBounded ==
  (lpc = "select" /\ \A c \in Callers : cpc[c] = "idle") =>
     timer.state \in {"armed", "fired"}

\* the caller is inside loadActionPlans, between s.Lock() and the deferred
\* s.Unlock()
Rebuilding(c) == cpc[c] \in {"lap_pop", "lap_permit", "lap_get", "lap_scan"}

\* C15 (queue mutual exclusion): a rebuild runs with the lock held by its
\* caller, and the loop fires with the lock held by the loop, so never both at
\* once; from the read of the head to the pop or reinsert the queue is the
\* one the loop read, its head being the item the loop dispatches; the queue
\* changes only in a step of the holder of the lock; and what the loop leaves
\* after firing is made of the items of the queue it fired on.
C15_QueueExclusion ==
  /\ [](\A c \in Callers : Rebuilding(c) => (lock = c /\ lpc # "fire"))
  /\ [](lpc = "fire" => (lock = "loop" /\ queue # <<>> /\ Head(queue) = a0))
  /\ [][ /\ (lpc = "fire" /\ lpc' = "fire") => queue' = queue
         /\ queue' # queue =>
              \/ lpc = "fire" /\ lock = "loop" /\ lpc' = "top"
              \/ lpc = "lock" /\ lock = "none" /\ lpc' \in {"fire", "arm"}
              \/ \E c \in Callers : lock = c /\ cpc[c] \in {"lap_get", "lap_scan"}
         /\ Dispatches =>
              {queue'[k].id : k \in 1..Len(queue')} \subseteq
                 {queue[k].id : k \in 1..Len(queue)}
       ]_vars

\* a Reload has come to s.Lock() while the loop is firing the head of a queue
\* of two items: it waits
C15_Witness ==
  /\ lpc = "fire"
  /\ lock = "loop"
  /\ Len(queue) = 2
  /\ \E c \in Callers : cpc[c] = "lap_lock"

\* C16 (a reload wakes a parked loop): the send of a Reload is taken at once
\* by a parked loop, which leaves its receive only so and goes back to the
\* test of the queue; finding the queue non-empty it goes on to the lock,
\* where it reads the head of the queue and fires it when it is due; finding
\* it empty it parks again. Nothing is dispatched from an empty queue, and a
\* Reload made while the loop runs and no Shutdown has been called does send.
C16_ReloadWakesParked ==
  /\ [](\A c \in Callers : (cpc[c] = "r_send" /\ lpc = "park") => ENABLED Signal(c))
  /\ [][ /\ (lpc = "park" /\ lpc' # "park") => Signalled
         /\ (lpc = "park" /\ Signalled) => (lpc' = "chk" /\ queue' = queue)
         /\ (lpc = "chk" /\ lpc' # "chk") =>
              lpc' = IF queue = <<>> THEN "park" ELSE "lock"
         /\ (lpc = "lock" /\ lpc' # "lock" /\ queue # <<>>) =>
              /\ a0'.id = Head(queue).id
              /\ lpc' = IF GetNextStartTime(Head(queue), now) <= now THEN "fire" ELSE "arm"
         /\ queue = <<>> => ~Dispatches
         /\ \A c \in Callers :
              (cpc[c] = "r_chk" /\ cpc'[c] # "r_chk" /\ LoopRunning /\ ~shutdownCalled)
                 => cpc'[c] = "r_send"
       ]_vars

\* the loop parked on an empty queue; a Reload has since queued two items and
\* is at its send, which the loop is there to take
C16_Witness ==
  /\ lpc = "park"
  /\ Len(queue) = 2
  /\ nExec = 0
  /\ ~timer.set
  /\ \E c \in Callers : cpc[c] = "r_send"

\* an item as the claim names it: its identifier and the stamps of its plan
Entry(id, plan) == [id |-> id, accountIDs |-> plan.AccountIDs, actionPlanID |-> plan.Id]

\* the items of the plans that have a timing, are not ASAP and whose start
\* time, resolved at t, is not before t, each with the stamps of its plan
Eligible(plans, t) ==
  LET all == PlanItems(plans)
  IN { Entry(all[k].at.id, all[k].plan) :
         k \in { j \in 1..Len(all) :
                   /\ all[j].at.Timing # NilTiming
                   /\ ~all[j].at.asap
                   /\ NextOccurrence(all[j].at.Timing, t) >= t } }

\* the identifiers and the stamps of the items of a queue
Entries(q) ==
  { [id |-> q[k].id, accountIDs |-> q[k].accountIDs, actionPlanID |-> q[k].actionPlanID] :
      k \in 1..Len(q) }

\* C17 (a rebuild replaces the queue): when loadActionPlans returns, the
\* queue holds, once each and stamped with the accounts and the identifier of
\* its plan, every item storage returned that has a timing, is not ASAP and
\* is not stale now, and no item but those storage returned with a timing,
\* not ASAP and not stale when the plans were read; an item of the queue the
\* rebuild replaced is there only if storage returned it.
C17_RebuildReplaces ==
  [][ RebuildReturns =>
        /\ Eligible(loaded.plans, now) \subseteq Entries(queue')
        /\ Entries(queue') \subseteq Eligible(loaded.plans, loaded.at)
        /\ Cardinality(Entries(queue')) = Len(queue')
        /\ \A id \in loaded.before :
             id \in {queue'[k].id : k \in 1..Len(queue')} =>
               id \in {PlanItems(loaded.plans)[k].at.id :
                          k \in 1..Len(PlanItems(loaded.plans))}
    ]_vars

\* the queue held the items of both plans; a rebuild to which storage
\* returned the first plan only is about to return: it has queued the two
\* items of that plan, with its stamps, and "once1" of the other plan is gone
C17_Witness ==
  \E c \in Callers :
    /\ cpc[c] = "lap_scan"
    /\ scan = <<>>
    /\ loaded.plans = <<PlanA>>
    /\ "once1" \in loaded.before
    /\ Len(queue) = 2
    /\ \A k \in 1..Len(queue) :
         /\ queue[k].id \in {"once3", "every1"}
         /\ queue[k].actionPlanID = "pA"
         /\ queue[k].accountIDs = {"acc1"}

\* the call is between mux.Lock() (line 60) and mux.Unlock() (line 78)
InSection(t) == upc[t] \in {"prune", "insert"}

\* C18 (stats window mutual exclusion), as claimed: two calls of
\* updateActStats are never both between Lock and Unlock on the same window.
C18_WindowExclusion ==
  \A t1, t2 \in StatThreads :
    (t1 # t2 /\ InSection(t1) /\ InSection(t2)) => ucall[t1].win # ucall[t2].win

\* C19 (the lock is released on every path), as claimed: once a call of
\* updateActStats has returned, the mutex it locked is unlocked.
C19_LockReleased ==
  \A t \in StatThreads : upc[t] = "idle" => ucall[t].mux = "unlocked"

\* C20 (drain protocol): a pop takes one task and is followed, before any
\* other pop, by the dispatch of that task, which starts one execution; an
\* execution starts only so; the first pop that yields no task or an error
\* ends the popping for good, and it can always be made once nothing is
\* pending; the read of the plans that follows is never held up by the
\* executions still in flight.
C20_DrainProtocol ==
  /\ [](\A c \in Callers : cpc[c] = "lap_get" => ENABLED GetPlans(c))
  /\ [](\A c \in Callers : (cpc[c] = "lap_pop" /\ backlog = 0) => ENABLED DrainEnd(c))
  /\ [][ /\ backlog' # backlog =>
              /\ backlog' = backlog - 1
              /\ InFlight' = InFlight
              /\ \E c \in Callers : cpc[c] = "lap_pop" /\ cpc'[c] = "lap_permit"
         /\ InFlight' > InFlight =>
              /\ InFlight' = InFlight + 1
              /\ backlog' = backlog
              /\ \E c \in Callers : cpc[c] = "lap_permit" /\ cpc'[c] = "lap_pop"
         /\ \A c \in Callers :
              /\ (cpc[c] = "lap_permit" /\ cpc'[c] # "lap_permit") =>
                    (cpc'[c] = "lap_pop" /\ limit' = limit + 1)
              /\ (cpc[c] = "lap_pop" /\ cpc'[c] \notin {"lap_pop", "lap_permit"}) =>
                    (cpc'[c] = "lap_get" /\ backlog' = backlog /\ InFlight' = InFlight)
              /\ cpc[c] \in {"lap_get", "lap_scan"} =>
                    cpc'[c] \in {"lap_get", "lap_scan", "r_chk"}
       ]_vars

\* of five pending tasks three have been popped and dispatched and are still
\* running, the fourth pop has failed, and the rebuild is visiting the plans
\* it has read
C20_Witness ==
  \E c \in Callers :
    /\ cpc[c] = "lap_scan"
    /\ scan # <<>>
    /\ limit = 3
    /\ running = 0
    /\ backlog = 2

====
